---- MODULE Spec2Model ----
(***************************************************************************)
(* The annotated TypeScript snippets of main.ts and of the two unnamed     *)
(* parts (the TypeScript source part_001 and its compiled JavaScript       *)
(* part_000), as a two-stage runner: every statement is first judged by    *)
(* the checking stage (the declared types of the snippet decide whether    *)
(* it is accepted or rejected) and, when accepted, evaluated by the        *)
(* execution stage (the JavaScript semantics of the emitted statement).    *)
(* A rejected statement is not executed.                                   *)
(***************************************************************************)
EXTENDS Integers, Sequences, FiniteSets, TLC

(***************************************************************************)
(* Runtime values.  A value is a record tagged with its typeof; a string   *)
(* is the sequence of its characters, an object is named by its own key.   *)
(***************************************************************************)
Num(n) == [t |-> "number", n |-> n, s |-> <<>>]
Str(s) == [t |-> "string", n |-> 0, s |-> s]
Obj(k) == [t |-> "object", n |-> 0, s |-> <<k>>]
Undef == [t |-> "undefined", n |-> 0, s |-> <<>>]

TypeOf(v) == v.t

\* The string literals of the snippets.
North == <<"n", "o", "r", "t", "h">>
South == <<"s", "o", "u", "t", "h">>
East == <<"e", "a", "s", "t">>
West == <<"w", "e", "s", "t">>
Hello == <<"h", "e", "l", "l", "o">>
World == <<"w", "o", "r", "l", "d">>
ThisIsAString ==
    <<"t", "h", "i", "s", " ", "i", "s", " ", "a", " ", "s", "t", "r", "i", "n", "g">>
InvalidDirectionEntered == "Invalid direction entered."

\* String.prototype.toUpperCase, character by character.
LowerLetters ==
    <<"a", "b", "c", "d", "e", "f", "g", "h", "i", "j", "k", "l", "m",
      "n", "o", "p", "q", "r", "s", "t", "u", "v", "w", "x", "y", "z">>
UpperLetters ==
    <<"A", "B", "C", "D", "E", "F", "G", "H", "I", "J", "K", "L", "M",
      "N", "O", "P", "Q", "R", "S", "T", "U", "V", "W", "X", "Y", "Z">>
UpperChar(c) ==
    IF \E k \in 1..26 : LowerLetters[k] = c
    THEN UpperLetters[CHOOSE k \in 1..26 : LowerLetters[k] = c]
    ELSE c
toUpperCase(s) == [k \in 1..Len(s) |-> UpperChar(s[k])]

\* Number.prototype.toFixed(2) of a non-negative integer: its decimal
\* digits, then ".00".
DigitChars == <<"0", "1", "2", "3", "4", "5", "6", "7", "8", "9">>
RECURSIVE Digits(_)
Digits(n) ==
    IF n < 10 THEN <<DigitChars[n + 1]>>
    ELSE Append(Digits(n \div 10), DigitChars[(n % 10) + 1])
toFixed2(n) == Digits(n) \o <<".", "0", "0">>

(***************************************************************************)
(* Member access at execution time.  A string has toUpperCase and length,  *)
(* a number has toFixed; the object literals {id: 1} and {name: "TS"} have *)
(* only their own key.  Calling a member that is not there is a TypeError; *)
(* reading one yields undefined.                                           *)
(***************************************************************************)
HasMethod(v, m) ==
    \/ v.t = "string" /\ m = "toUpperCase"
    \/ v.t = "number" /\ m = "toFixed"

CallMethod(v, m) ==
    IF m = "toUpperCase" THEN Str(toUpperCase(v.s)) ELSE Str(toFixed2(v.n))

GetProp(v, p) ==
    IF v.t = "string" /\ p = "length" THEN Num(Len(v.s)) ELSE Undef

(***************************************************************************)
(* Arrays at execution time: 0-based index i is position i + 1.            *)
(***************************************************************************)
JsLength(a) == Len(a)

\* An index past the end read as the last element.
JsGetClamped(a, i) == IF i < Len(a) THEN a[i + 1] ELSE a[Len(a)]

JsGet(a, i) == IF i < Len(a) THEN a[i + 1] ELSE Undef

JsSet(a, i, v) ==
    IF i < Len(a) THEN [a EXCEPT ![i + 1] = v]
    ELSE [k \in 1..(i + 1) |-> IF k <= Len(a) THEN a[k] ELSE IF k = i + 1 THEN v ELSE Undef]

\* unshift in place of push.
JsUnshift(a, v) == <<v>> \o a

JsPush(a, v) == Append(a, v)

(***************************************************************************)
(* Enums.  An enum object is the set of its key/value pairs.  A numeric    *)
(* member without initializer is the previous member plus 1 (0 for the     *)
(* first); the emitted code Size[Size["Small"] = 100] = "Small" stores the *)
(* label under the number as well.  A string member stores only the label. *)
(***************************************************************************)
Member(label, init, n, s) == [label |-> label, init |-> init, n |-> n, s |-> s]

NumbersMembers ==
    << Member(<<"Z", "e", "r", "o">>, "none", 0, <<>>),
       Member(<<"O", "n", "e">>, "none", 0, <<>>),
       Member(<<"T", "w", "o">>, "none", 0, <<>>),
       Member(<<"T", "h", "r", "e", "e">>, "none", 0, <<>>) >>

SizeSeed == 100

SizeMembers ==
    << Member(<<"S", "m", "a", "l", "l">>, "number", SizeSeed, <<>>),
       Member(<<"M", "e", "d", "i", "u", "m">>, "none", 0, <<>>),
       Member(<<"L", "a", "r", "g", "e">>, "none", 0, <<>>) >>

SizeStringMembers ==
    << Member(<<"U", "p">>, "string", 0, <<"U", "P">>),
       Member(<<"D", "o", "w", "n">>, "string", 0, <<"D", "O", "W", "N">>),
       Member(<<"L", "e", "f", "t">>, "string", 0, <<"L", "E", "F", "T">>),
       Member(<<"R", "i", "g", "h", "t">>, "string", 0, <<"R", "I", "G", "H", "T">>) >>

\* The enum declarations, in source order: the name each one declares and
\* its members.
EnumDecls ==
    << [name |-> "Numbers", members |-> NumbersMembers],
       [name |-> "Size", members |-> SizeMembers],
       [name |-> "Size", members |-> SizeStringMembers] >>

EnumNames == {"Numbers", "Size"}

\* obj[key] = value
PutKey(obj, key, value) ==
    {p \in obj : p.k # key} \cup {[k |-> key, v |-> value]}

\* obj[key]
EnumGet(obj, key) ==
    IF \E p \in obj : p.k = key
    THEN (CHOOSE p \in obj : p.k = key).v
    ELSE Undef

\* The position alone, whatever the initializer.
MemberPosition(members, i) == i - 1

\* The value of the member at position i: its initializer, or one more
\* than the member before it.
RECURSIVE MemberValue(_, _)
MemberValue(members, i) ==
    IF members[i].init = "number" THEN members[i].n
    ELSE IF i = 1 THEN 0
    ELSE MemberValue(members, i - 1) + 1

\* Every member stored under its label only.
RECURSIVE DefineMembersForward(_, _, _)
DefineMembersForward(obj, members, i) ==
    IF i > Len(members) THEN obj
    ELSE LET m == members[i]
             value == IF m.init = "string" THEN Str(m.s)
                      ELSE Num(MemberValue(members, i))
         IN DefineMembersForward(PutKey(obj, Str(m.label), value), members, i + 1)

\* The body of the emitted function, member by member.
RECURSIVE DefineMembers(_, _, _)
DefineMembers(obj, members, i) ==
    IF i > Len(members) THEN obj
    ELSE LET m == members[i]
             next ==
                 IF m.init = "string"
                 THEN PutKey(obj, Str(m.label), Str(m.s))
                 ELSE PutKey(PutKey(obj, Str(m.label), Num(MemberValue(members, i))),
                             Num(MemberValue(members, i)), Str(m.label))
         IN DefineMembers(next, members, i + 1)

\* (function (Size) { ... })(Size || (Size = {}))
DefineEnum(obj, members) == DefineMembers(obj, members, 1)

(***************************************************************************)
(* Statements.  Every statement of the snippets is one of these forms; a   *)
(* statement carries an index, a value, an array literal and a member      *)
(* name, of which each form uses what it needs.                            *)
(***************************************************************************)
Stmt(op, i, val, arr, name) ==
    [op |-> op, i |-> i, val |-> val, arr |-> arr, name |-> name]

NoStmt == Stmt("none", 0, Undef, <<>>, "")

ListSet(i, v) == Stmt("list.set", i, v, <<>>, "")
ListPush(v) == Stmt("list.push", 0, v, <<>>, "")
ListLogLength == Stmt("list.logLength", 0, Undef, <<>>, "")
ListLogAt(i) == Stmt("list.logAt", i, Undef, <<>>, "")
TupleSet(i, v) == Stmt("tuple.set", i, v, <<>>, "")
TuplePush(v) == Stmt("tuple.push", 0, v, <<>>, "")
TupleAssign(a) == Stmt("tuple.assign", 0, Undef, a, "")
TupleLogLength == Stmt("tuple.logLength", 0, Undef, <<>>, "")
TupleLogAt(i) == Stmt("tuple.logAt", i, Undef, <<>>, "")
CoordinatesAssign(v) == Stmt("coordinates.assign", 0, v, <<>>, "")
DirectionAssign(v) == Stmt("direction.assign", 0, v, <<>>, "")
Validate(v) == Stmt("validate", 0, v, <<>>, "")
ResponseCodeAssign(v) == Stmt("responseCode.assign", 0, v, <<>>, "")
EnumDeclare(d) == Stmt("enum.declare", d, Undef, <<>>, EnumDecls[d].name)
EnumLog(e, label) == Stmt("enum.log", 0, Str(label), <<>>, e)
AnyAssign(v) == Stmt("any.assign", 0, v, <<>>, "")
AnyLogCall(m) == Stmt("any.logCall", 0, Undef, <<>>, m)
AnyToNumber == Stmt("any.toNumber", 0, Undef, <<>>, "")
AnyCall(m) == Stmt("any.call", 0, Undef, <<>>, m)
AnyLogProp(p) == Stmt("any.logProp", 0, Undef, <<>>, p)
UnknownAssign(v) == Stmt("unknown.assign", 0, v, <<>>, "")
UnknownLogCall(m) == Stmt("unknown.logCall", 0, Undef, <<>>, m)
UnknownToString == Stmt("unknown.toString", 0, Undef, <<>>, "")
UnknownCall(m) == Stmt("unknown.call", 0, Undef, <<>>, m)
UnknownGuarded == Stmt("unknown.guarded", 0, Undef, <<>>, "")
AssertRead(v, p) == Stmt("assert.read", 0, v, <<>>, p)
AssertLogCall(v, m) == Stmt("assert.logCall", 0, v, <<>>, m)

(***************************************************************************)
(* The checking stage: the verdict the declared types give a statement.    *)
(***************************************************************************)
TupleArity == 2

Directions == {North, South, East, West}

ResponseCodes == {200, 404, 201}

\* coord: number[]
CheckList(s) ==
    CASE s.op = "list.set" -> IF s.val.t = "number" THEN "accept" ELSE "reject"
      [] s.op = "list.push" -> IF s.val.t = "number" THEN "accept" ELSE "reject"
      [] OTHER -> "accept"

\* tuple: [number, number].  An index or an array literal outside the
\* declared arity is an error; push is Array<number>'s and is accepted.
CheckTuple(s) ==
    CASE s.op = "tuple.set" ->
           IF s.i < TupleArity /\ s.val.t = "number" THEN "accept" ELSE "reject"
      [] s.op = "tuple.push" -> IF s.val.t = "number" THEN "accept" ELSE "reject"
      [] s.op = "tuple.assign" ->
           IF Len(s.arr) = TupleArity /\ \A k \in 1..Len(s.arr) : s.arr[k].t = "number"
           THEN "accept" ELSE "reject"
      [] s.op = "tuple.logAt" -> IF s.i < TupleArity THEN "accept" ELSE "reject"
      [] OTHER -> "accept"

\* coordinates: string; direction: "north" | "south" | "east" | "west";
\* responseCode: 200 | 404 | 201.  Inside the if block input is narrowed to
\* the union, so the block is accepted for every input.
CheckLiteral(s) ==
    CASE s.op = "coordinates.assign" ->
           IF s.val.t = "string" THEN "accept" ELSE "reject"
      [] s.op = "direction.assign" ->
           IF s.val.t = "string" /\ s.val.s \in Directions THEN "accept" ELSE "reject"
      [] s.op = "responseCode.assign" ->
           IF s.val.t = "number" /\ s.val.n \in ResponseCodes THEN "accept" ELSE "reject"
      [] OTHER -> "accept"

\* A member of an enum is known once its declaration has been seen.
CheckEnum(s, objs) ==
    CASE s.op = "enum.log" ->
           IF EnumGet(objs[s.name], s.val) # Undef THEN "accept" ELSE "reject"
      [] OTHER -> "accept"

\* any checked as if it were unknown.
CheckAnyAsUnknown(s) ==
    CASE s.op \in {"any.logCall", "any.call", "any.toNumber", "any.logProp"} -> "reject"
      [] OTHER -> "accept"

\* looselyTyped: any.  Nothing is checked.
CheckAny(s) == "accept"

\* unknown checked as if it were any.
CheckUnknownAsAny(s) == "accept"

\* definitelyNotAny: unknown.  Every value may be assigned; no member may
\* be used and the value may not be assigned to a string, except in a
\* branch that a typeof or instanceof test guards.
CheckUnknown(s) ==
    CASE s.op \in {"unknown.logCall", "unknown.call", "unknown.toString"} -> "reject"
      [] OTHER -> "accept"

\* An assertion checked against the value it is given.
CheckAssertValue(s) == IF s.val.t = "string" THEN "accept" ELSE "reject"

\* (someValue as string): the assertion is taken at its word.
CheckAssert(s) == "accept"

Check(s, objs) ==
    CASE s.op \in {"list.set", "list.push", "list.logLength", "list.logAt"} ->
           CheckList(s)
      [] s.op \in {"tuple.set", "tuple.push", "tuple.assign", "tuple.logLength",
                   "tuple.logAt"} -> CheckTuple(s)
      [] s.op \in {"coordinates.assign", "direction.assign", "validate",
                   "responseCode.assign"} -> CheckLiteral(s)
      [] s.op \in {"enum.declare", "enum.log"} -> CheckEnum(s, objs)
      [] s.op \in {"any.assign", "any.logCall", "any.toNumber", "any.call",
                   "any.logProp"} -> CheckAny(s)
      [] s.op \in {"unknown.assign", "unknown.logCall", "unknown.toString",
                   "unknown.call", "unknown.guarded"} -> CheckUnknown(s)
      [] OTHER -> CheckAssert(s)

(***************************************************************************)
(* The statements of the two TypeScript files, in order.  The statements   *)
(* that part_001 keeps only as comments are not part of its script.        *)
(***************************************************************************)
One == <<"O", "n", "e">>
Medium == <<"M", "e", "d", "i", "u", "m">>

MainScript ==
    << ListSet(0, Num(5)), ListPush(Num(3)), ListLogLength, ListLogAt(2),
       TupleSet(0, Num(5)), TuplePush(Num(3)), TupleSet(2, Num(3)),
       TupleAssign(<<Num(4), Num(5)>>), TupleAssign(<<Num(4), Num(5), Num(6)>>),
       TupleLogLength, TupleLogAt(0), TupleLogAt(1) >>

PartScript ==
    << ListSet(0, Num(5)), ListPush(Num(3)),
       TupleSet(0, Num(5)), TuplePush(Num(3)),
       CoordinatesAssign(Str(South)), Validate(Str(North)),
       ResponseCodeAssign(Num(200)),
       EnumDeclare(1), EnumLog("Numbers", One),
       EnumDeclare(2), EnumLog("Size", Medium),
       EnumDeclare(3),
       AnyAssign(Num(5)), AnyAssign(Str(Hello)), AnyAssign(Obj("id")),
       AnyLogCall("toUpperCase"), AnyToNumber,
       AnyCall("someNonExistentMethod"), AnyLogProp("someNonExistentProperty"),
       UnknownAssign(Num(10)), UnknownAssign(Str(World)), UnknownAssign(Obj("name")),
       UnknownGuarded,
       AssertRead(Str(ThisIsAString), "length"),
       AssertRead(Str(ThisIsAString), "length") >>

Files == {"main.ts", "part_001"}

Script(f) == IF f = "main.ts" THEN MainScript ELSE PartScript

(***************************************************************************)
(* The statements of each snippet, for runs of one snippet in any order:   *)
(* the statements of the scripts, the ones the source documents in         *)
(* comments, and the same forms over a few more operands.                  *)
(***************************************************************************)
MaxSteps == 4

Snippets == {"array", "tuple", "literal", "enum", "any", "unknown"}

PushValues == {Num(3), Num(5)}

Candidates ==
    {Str(North), Str(South), Str(East), Str(West), Str(Hello),
     Str(<<"N", "o", "r", "t", "h">>), Str(<<>>)}

AnyValues == {Num(5), Str(Hello), Obj("id")}

UnknownValues == {Num(10), Str(World), Obj("name")}

AssertValues == {Str(ThisIsAString), Num(5)}

MemberLabels(d) == {EnumDecls[d].members[k].label : k \in 1..Len(EnumDecls[d].members)}

SnippetStmts(sn) ==
    CASE sn = "array" ->
           {ListSet(i, Num(5)) : i \in 0..1} \cup {ListPush(v) : v \in PushValues}
           \cup {ListLogLength} \cup {ListLogAt(i) : i \in 0..3}
      [] sn = "tuple" ->
           {TupleSet(i, Num(5)) : i \in 0..1} \cup {TupleSet(i, Num(3)) : i \in 2..3}
           \cup {TuplePush(Num(3))}
           \cup {TupleAssign(<<Num(4), Num(5)>>), TupleAssign(<<Num(4), Num(5), Num(6)>>),
                 TupleAssign(<<Num(4)>>)}
           \cup {TupleLogLength} \cup {TupleLogAt(i) : i \in 0..2}
      [] sn = "literal" ->
           {CoordinatesAssign(Str(South)), DirectionAssign(Str(Hello)),
            ResponseCodeAssign(Num(200))}
           \cup {Validate(c) : c \in Candidates}
      [] sn = "enum" ->
           {EnumDeclare(d) : d \in 1..Len(EnumDecls)}
           \cup UNION {{EnumLog(EnumDecls[d].name, l) : l \in MemberLabels(d)} :
                       d \in 1..Len(EnumDecls)}
      [] sn = "any" ->
           {AnyAssign(v) : v \in AnyValues}
           \cup {AnyLogCall("toUpperCase"), AnyToNumber, AnyCall("someNonExistentMethod"),
                 AnyLogProp("someNonExistentProperty")}
      [] OTHER ->
           {UnknownAssign(v) : v \in UnknownValues}
           \cup {UnknownLogCall("toUpperCase"), UnknownToString, UnknownCall("someMethod"),
                 UnknownGuarded}
           \cup {AssertRead(v, "length") : v \in AssertValues}
           \cup {AssertLogCall(v, "toUpperCase") : v \in AssertValues}

(***************************************************************************)
(* State.  mode is the file being run ("main.ts", "part_001") or the       *)
(* snippet whose statements are tried; pc counts the statements taken      *)
(* (1-based); cur, verdict and outcome describe the last statement, and    *)
(* used the member it used at execution time.  The other variables are     *)
(* the variables of the snippets, the two console streams, the count of    *)
(* checking-stage diagnostics and whether the run has faulted.             *)
(***************************************************************************)
VARIABLES mode, pc, cur, verdict, outcome, used, diagnostics, halted,
          coord, tuple, coordinates, input, direction, responseCode,
          enums, declared, looselyTyped, myNum, definitelyNotAny, myStr,
          someValue, strLength, val, out, err

control == <<mode, pc, cur, verdict, outcome, used, diagnostics, halted>>
arrays == <<coord, tuple>>
literals == <<coordinates, input, direction, responseCode>>
enumVars == <<enums, declared>>
dynamics == <<looselyTyped, myNum, definitelyNotAny, myStr, someValue, strLength, val>>
streams == <<out, err>>
program == <<arrays, literals, enumVars, dynamics, streams>>
vars == <<control, program>>

NoUse == [recv |-> "", member |-> "", guard |-> "none", t |-> "undefined"]
Use(recv, member, guard, t) == [recv |-> recv, member |-> member, guard |-> guard, t |-> t]

\* The declarations of the snippets: coord and the pair start as [1, 2], a
\* let without initializer is undefined, no enum exists yet; looselyTyped
\* and definitelyNotAny hold the first value assigned to them.
Init ==
    /\ mode \in Files \cup Snippets
    /\ pc = 1
    /\ cur = NoStmt
    /\ verdict = "none"
    /\ outcome = "none"
    /\ used = NoUse
    /\ diagnostics = 0
    /\ halted = FALSE
    /\ coord = <<Num(1), Num(2)>>
    /\ tuple = <<Num(1), Num(2)>>
    /\ coordinates = Undef
    /\ input = Undef
    /\ direction = Undef
    /\ responseCode = Undef
    /\ enums = [e \in EnumNames |-> {}]
    /\ declared = {}
    /\ looselyTyped = IF mode \in Files THEN Undef ELSE Num(5)
    /\ myNum = Undef
    /\ definitelyNotAny = IF mode \in Files THEN Undef ELSE Num(10)
    /\ myStr = Undef
    /\ someValue = Undef
    /\ strLength = Undef
    /\ val = Undef
    /\ out = <<>>
    /\ err = <<>>

\* Statement s is the next one: the next of the file's script (with any
\* candidate as the input of the validation), or any statement of the
\* snippet.  const input and an enum declaration are declared once.
Admissible(s) ==
    /\ IF mode \in Files
       THEN /\ pc <= Len(Script(mode))
            /\ \/ s = Script(mode)[pc]
               \/ s.op = "validate" /\ Script(mode)[pc].op = "validate"
       ELSE /\ pc <= MaxSteps
            /\ s \in SnippetStmts(mode)
    /\ s.op = "validate" => input = Undef
    /\ s.op = "enum.declare" => s.i \notin declared

\* Taking statement s: the run has not faulted, and the checking stage
\* gives its verdict.
Take(s) ==
    /\ ~halted
    /\ Admissible(s)
    /\ cur' = s
    /\ pc' = pc + 1
    /\ mode' = mode
    /\ verdict' = Check(s, enums)

Accepted(s) == Check(s, enums) = "accept"

\* A rejected statement is reported and not executed.
Rejected ==
    /\ outcome' = "rejected"
    /\ diagnostics' = diagnostics + 1
    /\ used' = NoUse
    /\ halted' = halted
    /\ UNCHANGED program

\* The statement ran to its end.
Done(u) ==
    /\ outcome' = "done"
    /\ diagnostics' = diagnostics
    /\ used' = u
    /\ halted' = FALSE

\* The exception swallowed: the run goes on.
FaultCaught(u) ==
    /\ outcome' = "fault"
    /\ diagnostics' = diagnostics
    /\ used' = u
    /\ halted' = FALSE

\* The statement threw: nothing catches it, the run ends.
Fault(u) ==
    /\ outcome' = "fault"
    /\ diagnostics' = diagnostics
    /\ used' = u
    /\ halted' = TRUE

(***************************************************************************)
(* The growable list  const coord: number[] = [1, 2]                       *)
(***************************************************************************)
\* coord[i] = v
ExecListSet ==
    \E i \in 0..1, v \in {Num(5)} :
        LET s == ListSet(i, v) IN
        /\ Take(s)
        /\ IF Accepted(s)
           THEN /\ coord' = JsSet(coord, i, v)
                /\ Done(NoUse)
                /\ UNCHANGED <<tuple, literals, enumVars, dynamics, streams>>
           ELSE Rejected

\* coord.push(v)
ExecListPush ==
    \E v \in PushValues :
        LET s == ListPush(v) IN
        /\ Take(s)
        /\ IF Accepted(s)
           THEN /\ coord' = JsPush(coord, v)
                /\ Done(NoUse)
                /\ UNCHANGED <<tuple, literals, enumVars, dynamics, streams>>
           ELSE Rejected

\* console.log(coord.length)
ExecListLogLength ==
    LET s == ListLogLength IN
    /\ Take(s)
    /\ IF Accepted(s)
       THEN /\ out' = Append(out, Num(JsLength(coord)))
            /\ Done(NoUse)
            /\ UNCHANGED <<arrays, literals, enumVars, dynamics, err>>
       ELSE Rejected

\* console.log(coord[i])
ExecListLogAt ==
    \E i \in 0..3 :
        LET s == ListLogAt(i) IN
        /\ Take(s)
        /\ IF Accepted(s)
           THEN /\ out' = Append(out, JsGet(coord, i))
                /\ Done(NoUse)
                /\ UNCHANGED <<arrays, literals, enumVars, dynamics, err>>
           ELSE Rejected

(***************************************************************************)
(* The fixed-arity pair  let tuple: [number, number] = [1, 2]              *)
(***************************************************************************)
\* tuple[i] = v
ExecTupleSet ==
    \E i \in 0..3, v \in {Num(3), Num(5)} :
        LET s == TupleSet(i, v) IN
        /\ Take(s)
        /\ IF Accepted(s)
           THEN /\ tuple' = JsSet(tuple, i, v)
                /\ Done(NoUse)
                /\ UNCHANGED <<coord, literals, enumVars, dynamics, streams>>
           ELSE Rejected

\* tuple.push(v)
ExecTuplePush ==
    \E v \in {Num(3)} :
        LET s == TuplePush(v) IN
        /\ Take(s)
        /\ IF Accepted(s)
           THEN /\ tuple' = JsPush(tuple, v)
                /\ Done(NoUse)
                /\ UNCHANGED <<coord, literals, enumVars, dynamics, streams>>
           ELSE Rejected

\* tuple = [...]
ExecTupleAssign ==
    \E a \in {<<Num(4)>>, <<Num(4), Num(5)>>, <<Num(4), Num(5), Num(6)>>} :
        LET s == TupleAssign(a) IN
        /\ Take(s)
        /\ IF Accepted(s)
           THEN /\ tuple' = a
                /\ Done(NoUse)
                /\ UNCHANGED <<coord, literals, enumVars, dynamics, streams>>
           ELSE Rejected

\* console.log(tuple.length)
ExecTupleLogLength ==
    LET s == TupleLogLength IN
    /\ Take(s)
    /\ IF Accepted(s)
       THEN /\ out' = Append(out, Num(JsLength(tuple)))
            /\ Done(NoUse)
            /\ UNCHANGED <<arrays, literals, enumVars, dynamics, err>>
       ELSE Rejected

\* console.log(tuple[i])
ExecTupleLogAt ==
    \E i \in 0..2 :
        LET s == TupleLogAt(i) IN
        /\ Take(s)
        /\ IF Accepted(s)
           THEN /\ out' = Append(out, JsGet(tuple, i))
                /\ Done(NoUse)
                /\ UNCHANGED <<arrays, literals, enumVars, dynamics, err>>
           ELSE Rejected

(***************************************************************************)
(* Literal types                                                           *)
(***************************************************************************)
\* coordinates = "south"
ExecCoordinatesAssign ==
    LET s == CoordinatesAssign(Str(South)) IN
    /\ Take(s)
    /\ IF Accepted(s)
       THEN /\ coordinates' = s.val
            /\ Done(NoUse)
            /\ UNCHANGED <<arrays, input, direction, responseCode, enumVars, dynamics, streams>>
       ELSE Rejected

\* direction = "hello"
ExecDirectionAssign ==
    \E v \in {Str(Hello)} :
        LET s == DirectionAssign(v) IN
        /\ Take(s)
        /\ IF Accepted(s)
           THEN /\ direction' = v
                /\ Done(NoUse)
                /\ UNCHANGED <<arrays, coordinates, input, responseCode, enumVars, dynamics, streams>>
           ELSE Rejected

\* The test with its last comparison lost.
IsDirectionShort(c) ==
    \/ c = Str(North)
    \/ c = Str(South)
    \/ c = Str(East)

\* The test always taken as passed.
IsDirectionAlways(c) == c.t = "string"

\* input === "north" || input === "south" || input === "east" || input === "west"
IsDirection(c) ==
    \/ c = Str(North)
    \/ c = Str(South)
    \/ c = Str(East)
    \/ c = Str(West)

\* const input = c; if (...) { direction = input } else { console.error(...) }
ExecValidate ==
    \E c \in Candidates :
        LET s == Validate(c) IN
        /\ Take(s)
        /\ IF Accepted(s)
           THEN /\ input' = c
                /\ IF IsDirection(c)
                   THEN /\ direction' = c
                        /\ err' = err
                   ELSE /\ direction' = direction
                        /\ err' = Append(err, InvalidDirectionEntered)
                /\ Done(NoUse)
                /\ UNCHANGED <<arrays, coordinates, responseCode, enumVars, dynamics, out>>
           ELSE Rejected

\* responseCode = 200
ExecResponseCodeAssign ==
    LET s == ResponseCodeAssign(Num(200)) IN
    /\ Take(s)
    /\ IF Accepted(s)
       THEN /\ responseCode' = s.val
            /\ Done(NoUse)
            /\ UNCHANGED <<arrays, coordinates, input, direction, enumVars, dynamics, streams>>
       ELSE Rejected

(***************************************************************************)
(* Enums                                                                   *)
(***************************************************************************)
\* enum Numbers { ... }, enum Size { ... }
ExecEnumDeclare ==
    \E d \in 1..Len(EnumDecls) :
        LET s == EnumDeclare(d) IN
        /\ Take(s)
        /\ IF Accepted(s)
           THEN /\ enums' = [enums EXCEPT ![EnumDecls[d].name] =
                                 DefineEnum(@, EnumDecls[d].members)]
                /\ declared' = declared \cup {d}
                /\ Done(NoUse)
                /\ UNCHANGED <<arrays, literals, dynamics, streams>>
           ELSE Rejected

\* let size: Size = Size.Medium; console.log(size)
ExecEnumLog ==
    \E d \in 1..Len(EnumDecls) :
        \E l \in MemberLabels(d) :
            LET s == EnumLog(EnumDecls[d].name, l) IN
            /\ Take(s)
            /\ IF Accepted(s)
               THEN /\ out' = Append(out, EnumGet(enums[s.name], s.val))
                    /\ Done(NoUse)
                    /\ UNCHANGED <<arrays, literals, enumVars, dynamics, err>>
               ELSE Rejected

(***************************************************************************)
(* The loosely-typed value  let looselyTyped: any                          *)
(***************************************************************************)
\* looselyTyped = v
ExecAnyAssign ==
    \E v \in AnyValues :
        LET s == AnyAssign(v) IN
        /\ Take(s)
        /\ IF Accepted(s)
           THEN /\ looselyTyped' = v
                /\ Done(NoUse)
                /\ UNCHANGED <<arrays, literals, enumVars, myNum, definitelyNotAny, myStr,
                               someValue, strLength, val, streams>>
           ELSE Rejected

\* console.log(looselyTyped.toUpperCase())
ExecAnyLogCall ==
    LET s == AnyLogCall("toUpperCase")
        u == Use("looselyTyped", s.name, "none", TypeOf(looselyTyped))
    IN
    /\ Take(s)
    /\ IF Accepted(s)
       THEN /\ IF HasMethod(looselyTyped, s.name)
               THEN /\ out' = Append(out, CallMethod(looselyTyped, s.name))
                    /\ Done(u)
               ELSE /\ out' = out
                    /\ Fault(u)
            /\ UNCHANGED <<arrays, literals, enumVars, dynamics, err>>
       ELSE Rejected

\* myNum = looselyTyped
ExecAnyToNumber ==
    LET s == AnyToNumber IN
    /\ Take(s)
    /\ IF Accepted(s)
       THEN /\ myNum' = looselyTyped
            /\ Done(NoUse)
            /\ UNCHANGED <<arrays, literals, enumVars, looselyTyped, definitelyNotAny, myStr,
                           someValue, strLength, val, streams>>
       ELSE Rejected

\* looselyTyped.someNonExistentMethod()
ExecAnyCall ==
    LET s == AnyCall("someNonExistentMethod")
        u == Use("looselyTyped", s.name, "none", TypeOf(looselyTyped))
    IN
    /\ Take(s)
    /\ IF Accepted(s)
       THEN /\ IF HasMethod(looselyTyped, s.name) THEN Done(u) ELSE Fault(u)
            /\ UNCHANGED program
       ELSE Rejected

\* console.log(looselyTyped.someNonExistentProperty)
ExecAnyLogProp ==
    LET s == AnyLogProp("someNonExistentProperty")
        u == Use("looselyTyped", s.name, "none", TypeOf(looselyTyped))
    IN
    /\ Take(s)
    /\ IF Accepted(s)
       THEN /\ IF looselyTyped = Undef
               THEN /\ out' = out
                    /\ Fault(u)
               ELSE /\ out' = Append(out, GetProp(looselyTyped, s.name))
                    /\ Done(u)
            /\ UNCHANGED <<arrays, literals, enumVars, dynamics, err>>
       ELSE Rejected

(***************************************************************************)
(* The checked-unknown value  let definitelyNotAny: unknown                *)
(***************************************************************************)
\* definitelyNotAny = v
ExecUnknownAssign ==
    \E v \in UnknownValues :
        LET s == UnknownAssign(v) IN
        /\ Take(s)
        /\ IF Accepted(s)
           THEN /\ definitelyNotAny' = v
                /\ Done(NoUse)
                /\ UNCHANGED <<arrays, literals, enumVars, looselyTyped, myNum, myStr,
                               someValue, strLength, val, streams>>
           ELSE Rejected

\* console.log(definitelyNotAny.toUpperCase()), with no test before it
ExecUnknownLogCall ==
    LET s == UnknownLogCall("toUpperCase")
        u == Use("definitelyNotAny", s.name, "none", TypeOf(definitelyNotAny))
    IN
    /\ Take(s)
    /\ IF Accepted(s)
       THEN /\ IF HasMethod(definitelyNotAny, s.name)
               THEN /\ out' = Append(out, CallMethod(definitelyNotAny, s.name))
                    /\ Done(u)
               ELSE /\ out' = out
                    /\ Fault(u)
            /\ UNCHANGED <<arrays, literals, enumVars, dynamics, err>>
       ELSE Rejected

\* let myStr: string = definitelyNotAny, with no test before it
ExecUnknownToString ==
    LET s == UnknownToString IN
    /\ Take(s)
    /\ IF Accepted(s)
       THEN /\ myStr' = definitelyNotAny
            /\ Done(NoUse)
            /\ UNCHANGED <<arrays, literals, enumVars, looselyTyped, myNum, definitelyNotAny,
                           someValue, strLength, val, streams>>
       ELSE Rejected

\* definitelyNotAny.someMethod(), with no test before it
ExecUnknownCall ==
    LET s == UnknownCall("someMethod")
        u == Use("definitelyNotAny", s.name, "none", TypeOf(definitelyNotAny))
    IN
    /\ Take(s)
    /\ IF Accepted(s)
       THEN /\ IF HasMethod(definitelyNotAny, s.name) THEN Done(u) ELSE Fault(u)
            /\ UNCHANGED program
       ELSE Rejected

\* definitelyNotAny instanceof Error: none of the values is an Error.
InstanceOfError(v) == v.t = "error"

\* The branch the tests of the if chain select.
GuardOf(v) ==
    IF TypeOf(v) = "string" THEN "string"
    ELSE IF TypeOf(v) = "number" THEN "number"
    ELSE IF InstanceOfError(v) THEN "error"
    ELSE "none"

\* if (typeof definitelyNotAny === "string") { ... } else if (... "number") { ... }
\* else if (definitelyNotAny instanceof Error) { ... }
ExecUnknownGuarded ==
    LET s == UnknownGuarded
        g == GuardOf(definitelyNotAny)
        t == TypeOf(definitelyNotAny)
    IN
    /\ Take(s)
    /\ IF Accepted(s)
       THEN /\ CASE g = "string" ->
                      /\ out' = Append(out, CallMethod(definitelyNotAny, "toUpperCase"))
                      /\ myStr' = definitelyNotAny
                      /\ err' = err
                      /\ Done(Use("definitelyNotAny", "toUpperCase", g, t))
                 [] g = "number" ->
                      /\ out' = Append(out, CallMethod(definitelyNotAny, "toFixed"))
                      /\ myStr' = myStr
                      /\ err' = err
                      /\ Done(Use("definitelyNotAny", "toFixed", g, t))
                 [] g = "error" ->
                      /\ out' = out
                      /\ myStr' = myStr
                      /\ err' = Append(err, "message")
                      /\ Done(Use("definitelyNotAny", "message", g, t))
                 [] OTHER ->
                      /\ out' = out
                      /\ myStr' = myStr
                      /\ err' = err
                      /\ Done(NoUse)
            /\ UNCHANGED <<arrays, literals, enumVars, looselyTyped, myNum, definitelyNotAny,
                           someValue, strLength, val>>
       ELSE Rejected

(***************************************************************************)
(* Type assertions on an unknown value                                     *)
(***************************************************************************)
\* let someValue: unknown = v; let strLength: number = (someValue as string).length
ExecAssertRead ==
    \E v \in AssertValues :
        LET s == AssertRead(v, "length") IN
        /\ Take(s)
        /\ IF Accepted(s)
           THEN /\ someValue' = v
                /\ strLength' = GetProp(v, s.name)
                /\ Done(Use("someValue", s.name, "assert", TypeOf(v)))
                /\ UNCHANGED <<arrays, literals, enumVars, looselyTyped, myNum,
                               definitelyNotAny, myStr, val, streams>>
           ELSE Rejected

\* let val: unknown = v; console.log((val as string).toUpperCase())
ExecAssertLogCall ==
    \E v \in AssertValues :
        LET s == AssertLogCall(v, "toUpperCase")
            u == Use("val", s.name, "assert", TypeOf(v))
        IN
        /\ Take(s)
        /\ IF Accepted(s)
           THEN /\ val' = v
                /\ IF HasMethod(v, s.name)
                   THEN /\ out' = Append(out, CallMethod(v, s.name))
                        /\ Done(u)
                   ELSE /\ out' = out
                        /\ Fault(u)
                /\ UNCHANGED <<arrays, literals, enumVars, looselyTyped, myNum,
                               definitelyNotAny, myStr, someValue, strLength, err>>
           ELSE Rejected

(***************************************************************************)
(* The runner                                                              *)
(***************************************************************************)
Next ==
    \/ ExecListSet
    \/ ExecListPush
    \/ ExecListLogLength
    \/ ExecListLogAt
    \/ ExecTupleSet
    \/ ExecTuplePush
    \/ ExecTupleAssign
    \/ ExecTupleLogLength
    \/ ExecTupleLogAt
    \/ ExecCoordinatesAssign
    \/ ExecDirectionAssign
    \/ ExecValidate
    \/ ExecResponseCodeAssign
    \/ ExecEnumDeclare
    \/ ExecEnumLog
    \/ ExecAnyAssign
    \/ ExecAnyLogCall
    \/ ExecAnyToNumber
    \/ ExecAnyCall
    \/ ExecAnyLogProp
    \/ ExecUnknownAssign
    \/ ExecUnknownLogCall
    \/ ExecUnknownToString
    \/ ExecUnknownCall
    \/ ExecUnknownGuarded
    \/ ExecAssertRead
    \/ ExecAssertLogCall

Spec == Init /\ [][Next]_vars

(***************************************************************************)
(* Properties                                                              *)
(***************************************************************************)
Last(q) == q[Len(q)]

\* C1: after the validation of a candidate, a candidate outside
\* {"north", "south", "east", "west"} is not bound to direction and the
\* error stream holds exactly one diagnostic; a candidate of the set is the
\* value of direction and the error stream is empty.
C1_ClosedSetValidation ==
    (cur.op = "validate" /\ outcome = "done") =>
        /\ input = cur.val
        /\ cur.val.s \in Directions =>
             /\ direction = cur.val
             /\ err = <<>>
        /\ cur.val.s \notin Directions =>
             /\ direction # cur.val
             /\ err = <<InvalidDirectionEntered>>

\* A candidate outside the set has been validated and reported.
C1_Witness ==
    /\ cur = Validate(Str(Hello))
    /\ outcome = "done"
    /\ Len(err) = 1

\* C2: every statement that would change the pair's element count (push,
\* a write at an index >= 2, the assignment of an array of another length)
\* is rejected by the checking stage and so not executed, and a write at
\* index 0 or 1 is executed and changes that element only.
C2_FixedArityPair ==
    [][ /\ ( \/ cur'.op = "tuple.push"
             \/ cur'.op = "tuple.set" /\ cur'.i >= TupleArity
             \/ cur'.op = "tuple.assign" /\ Len(cur'.arr) # TupleArity )
           => (verdict' = "reject" /\ outcome' = "rejected" /\ tuple' = tuple)
        /\ (cur'.op = "tuple.set" /\ cur'.i < TupleArity)
           => /\ outcome' = "done"
              /\ Len(tuple') = Len(tuple)
              /\ \A k \in 0..(Len(tuple) - 1) :
                    JsGet(tuple', k) = IF k = cur'.i THEN cur'.val ELSE JsGet(tuple, k)
      ]_vars

\* C3: a push of x onto the list makes it one longer, x is the element at
\* the index that was the length, and the elements below are unchanged.
C3_ListAppend ==
    [][ (cur'.op = "list.push" /\ outcome' = "done") =>
            /\ JsLength(coord') = JsLength(coord) + 1
            /\ JsGet(coord', JsLength(coord)) = cur'.val
            /\ \A k \in 0..(JsLength(coord) - 1) : JsGet(coord', k) = JsGet(coord, k)
      ]_vars

\* The list has been pushed onto twice, the second time a 5 onto a list
\* that ends in 3.
C3_Witness ==
    /\ cur = ListPush(Num(5))
    /\ outcome = "done"
    /\ JsLength(coord) = 4
    /\ JsGet(coord, 2) = Num(3)

\* C4: in a declared numeric enum the label at position i (0-based) reads
\* back as seed + i, the seed being the first label's initializer or 0; the
\* values of Size are 100, 101, 102, Numbers.One prints 1 and Size.Medium
\* prints 101; this stays so in every later state.
Seed(d) ==
    IF EnumDecls[d].members[1].init = "number" THEN EnumDecls[d].members[1].n ELSE 0

C5_LooseCallFaultsAtExecution ==
    (cur.op = "any.call" /\ TypeOf(looselyTyped) = "string") =>
        /\ verdict = "accept"
        /\ outcome = "fault"
        /\ halted
        /\ used = Use("looselyTyped", "someNonExistentMethod", "none", "string")

\* "hello" was assigned and someNonExistentMethod called on it.
C5_Witness ==
    /\ cur = AnyCall("someNonExistentMethod")
    /\ looselyTyped = Str(Hello)
    /\ outcome = "fault"

\* C6: toUpperCase on definitelyNotAny with no test before it is rejected
\* by the checking stage; in the branch guarded by typeof === "string" it
\* runs without fault and prints the upper-cased string; and no member of
\* definitelyNotAny is ever used at execution unless the test for the type
\* that has it succeeded on the value.
C6_UnknownNeedsGuard ==
    /\ cur.op = "unknown.logCall" => (verdict = "reject" /\ outcome = "rejected")
    /\ (cur.op = "unknown.guarded" /\ TypeOf(definitelyNotAny) = "string") =>
          /\ outcome = "done"
          /\ used = Use("definitelyNotAny", "toUpperCase", "string", "string")
          /\ definitelyNotAny = Str(World) => Last(out) = Str(<<"W", "O", "R", "L", "D">>)
    /\ used.recv = "definitelyNotAny" =>
          /\ used.guard = used.t
          /\ used.member = "toUpperCase" => used.guard = "string"
          /\ used.member = "toFixed" => used.guard = "number"
          /\ outcome = "done"

\* "world" was assigned and upper-cased in the guarded branch.
C6_Witness ==
    /\ cur.op = "unknown.guarded"
    /\ definitelyNotAny = Str(World)
    /\ Last(out) = Str(<<"W", "O", "R", "L", "D">>)

\* C7: no statement is taken after one that faulted (so nothing more is
\* written); a call of a missing method faults, a read of a missing
\* property prints undefined and the run goes on; a rejected statement
\* never faults and a faulting statement was accepted.
C7_FaultPropagation ==
    /\ [][outcome # "fault"]_vars
    /\ [] /\ cur.op = "any.call" => (outcome = "fault" /\ halted)
          /\ cur.op = "any.logProp" =>
                (outcome = "done" /\ ~halted /\ Last(out) = Undef)
          /\ verdict = "reject" => outcome = "rejected"
          /\ outcome = "fault" => (verdict = "accept" /\ halted)
          /\ outcome = "rejected" => verdict = "reject"

\* The missing method was called with statements left to take, after the
\* missing property had been printed.
C7_Witness ==
    /\ mode = "any"
    /\ cur.op = "any.call"
    /\ outcome = "fault"
    /\ pc <= MaxSteps
    /\ Len(out) > 0
    /\ Last(out) = Undef

\* C8: while a file's statements are executed in order the pair holds
\* exactly 2 elements, and the length printed for it is 2.
C8_PairLength ==
    mode \in Files =>
        /\ JsLength(tuple) = TupleArity
        /\ (cur.op = "tuple.logLength" /\ outcome = "done") => Last(out) = Num(TupleArity)

\* C9: the validation of a candidate outside the set leaves direction
\* unbound, and changes nothing but the candidate's own binding and the
\* error stream.
C9_RejectedValidationFrame ==
    [][ (cur'.op = "validate" /\ cur'.val.s \notin Directions) =>
            /\ direction = Undef
            /\ direction' = Undef
            /\ UNCHANGED <<arrays, coordinates, responseCode, enumVars, dynamics, out>>
      ]_vars

\* In the run of part_001 a candidate outside the set was validated, after
\* other variables had been given values.
C9_Witness ==
    /\ mode = "part_001"
    /\ cur = Validate(Str(<<"N", "o", "r", "t", "h">>))
    /\ direction = Undef
    /\ coordinates = Str(South)

\* C10: a member used through a type assertion is accepted by the checking
\* stage whatever the value, and is used with no test of the value; the
\* length of "this is a string" is read as 16; toUpperCase on 5 asserted to
\* be a string is accepted and faults at execution.
C10_AssertionSkipsCheck ==
    /\ cur.op \in {"assert.read", "assert.logCall"} =>
          /\ verdict = "accept"
          /\ used.guard = "assert"
          /\ used.t = TypeOf(cur.val)
    /\ cur = AssertRead(Str(ThisIsAString), "length") =>
          (outcome = "done" /\ strLength = Num(16))
    /\ cur = AssertLogCall(Num(5), "toUpperCase") =>
          (outcome = "fault" /\ halted /\ val = Num(5))
    /\ cur = AssertLogCall(Str(ThisIsAString), "toUpperCase") => outcome = "done"

\* 5 was asserted to be a string and toUpperCase called on it, after the
\* length of "this is a string" had been read through an assertion.
C10_Witness ==
    /\ cur = AssertLogCall(Num(5), "toUpperCase")
    /\ outcome = "fault"
    /\ strLength = Num(16)

\* C11: a read of the list at an index >= its length is accepted by the
\* checking stage, prints undefined, does not fault (the run can take its
\* next statement), and leaves the list's length and elements unchanged.
C11_OutOfRangeRead ==
    [][ (cur'.op = "list.logAt" /\ cur'.i >= Len(coord)) =>
            /\ verdict' = "accept"
            /\ outcome' = "done"
            /\ ~halted'
            /\ out' = Append(out, Undef)
            /\ coord' = coord
      ]_vars

\* coord[3] was read from the two-element list and printed as undefined,
\* and the next statement printed the length, still 2.
C11_Witness ==
    /\ mode = "array"
    /\ cur = ListLogLength
    /\ outcome = "done"
    /\ out = <<Undef, Num(2)>>
    /\ coord = <<Num(1), Num(2)>>

\* C12: once the numeric enum Size is declared, its object maps both ways
\* and round-trips: Size[Size[L]] = L for each of its labels Small,
\* Medium, Large, Size[Size[v]] = v for each v in {100, 101, 102}, and
\* distinct labels have distinct values.
SizeLabels == {Str(SizeMembers[k].label) : k \in 1..Len(SizeMembers)}

SizeValues == {Num(100), Num(101), Num(102)}

C12_SizeRoundTrip ==
    2 \in declared =>
        /\ \A L \in SizeLabels :
              /\ EnumGet(enums["Size"], L) \in SizeValues
              /\ EnumGet(enums["Size"], EnumGet(enums["Size"], L)) = L
        /\ \A v \in SizeValues :
              /\ EnumGet(enums["Size"], v) \in SizeLabels
              /\ EnumGet(enums["Size"], EnumGet(enums["Size"], v)) = v
        /\ \A L1, L2 \in SizeLabels :
              L1 # L2 => EnumGet(enums["Size"], L1) # EnumGet(enums["Size"], L2)

\* In the run of part_001 Size holds its numeric members and the string
\* members merged into it, and 101 maps back to Medium.
C12_Witness ==
    /\ mode = "part_001"
    /\ {2, 3} \subseteq declared
    /\ EnumGet(enums["Size"], Num(101)) = Str(Medium)
    /\ EnumGet(enums["Size"], Str(<<"U", "p">>)) = Str(<<"U", "P">>)

====
